---- MODULE Spec2Model ----
(***************************************************************************)
(* A model of xaml-parser-native/src/parser.rs: the two boundary           *)
(* operations parse_xaml (build) and free_xaml_element (release), the      *)
(* recursive tree builder convert_node_to_xaml_element and the recursive   *)
(* deallocator free_xaml_element_internal, over an explicit heap of        *)
(* individually owned allocations.                                         *)
(***************************************************************************)
EXTENDS Integers, Sequences, FiniteSets, TLC

\* ------------------------------------------------------------------------
\* Bounds of the model.
\* ------------------------------------------------------------------------
MaxNodes == 3      \* nodes of a parsed document (elements, text, comments, PIs)
MaxAttrs == 2      \* attributes carried by an element of a parsed document
MaxPairNodes == 2  \* nodes of a document built by one of two concurrent callers
MaxPairAllocs == 5 \* allocations of the tree built from such a document

\* ------------------------------------------------------------------------
\* Raw pointers and C strings.
\* ------------------------------------------------------------------------
NULL == 0          \* std::ptr::null_mut(); live addresses are 1, 2, ...
NUL == 0           \* the terminator byte of a C string

HasNul(s) == \E k \in 1..Len(s) : s[k] = NUL

\* ------------------------------------------------------------------------
\* The parsing collaborator (roxmltree).  A parsed document is a record of
\* sequences indexed by node, the nodes numbered in document order:
\*   kind   : "element" | "text" | "comment" | "pi"
\*   parent : the parent node, 0 for the root element
\*   nattrs : the number of attributes of an element
\*   has_ns : whether the element's tag name carries a namespace
\* and nul : <<>>, or <<[node, field, idx]>> naming the one string of the
\* document that holds a NUL character; empty : <<>>, or the one namespace
\* or text of the document that is the empty string.
\* ------------------------------------------------------------------------
NodeKinds == {"element", "text", "comment", "pi"}

RECURSIVE IsAncestorOrSelf(_, _, _)
IsAncestorOrSelf(parent, a, b) ==
    IF b = a THEN TRUE
    ELSE IF b = 0 THEN FALSE
    ELSE IsAncestorOrSelf(parent, a, parent[b])

\* kind/parent describe a tree written in document order: node 1 is the
\* root element, only elements have children, a node's parent is the
\* previous node or one of its ancestors, and two text nodes are never
\* adjacent siblings (the parser merges them).
WellShaped(n, kind, parent) ==
    /\ kind[1] = "element"
    /\ parent[1] = 0
    /\ \A i \in 2..n :
         /\ parent[i] \in 1..(i - 1)
         /\ kind[parent[i]] = "element"
         /\ IsAncestorOrSelf(parent, parent[i], i - 1)
         /\ ~(kind[i] = "text" /\ kind[i - 1] = "text" /\ parent[i] = parent[i - 1])

Shapes ==
    UNION { { [kind |-> kp[1], parent |-> kp[2]] :
                kp \in { x \in [1..n -> NodeKinds] \X [1..n -> 0..(n - 1)] :
                           WellShaped(n, x[1], x[2]) } } : n \in 1..MaxNodes }

StringFields == {"name", "namespace", "key", "value", "text"}

NodesOf(doc) == 1..Len(doc.kind)

\* Whether node i of doc has a string in field f at index idx (the index of
\* the attribute for a key or a value, 0 otherwise).
HasString(doc, i, f, idx) ==
    CASE f = "name" -> doc.kind[i] = "element" /\ idx = 0
      [] f = "namespace" -> doc.kind[i] = "element" /\ doc.has_ns[i] /\ idx = 0
      [] f \in {"key", "value"} -> doc.kind[i] = "element" /\ idx \in 1..doc.nattrs[i]
      [] f = "text" -> doc.kind[i] = "text" /\ idx = 0

\* The documents of the model: every shape of at most MaxNodes nodes; the
\* attribute counts 0..MaxAttrs and the presence of a namespace rotate over
\* the nodes from a starting point d, so that the elements of one document
\* differ; at most one string holds a NUL, the last one of its field in
\* document order, or else at most one namespace or text is empty, again
\* the last one.
Decorated(s, d) ==
    [kind   |-> s.kind,
     parent |-> s.parent,
     nattrs |-> [i \in 1..Len(s.kind) |-> (d + i - 1) % (MaxAttrs + 1)],
     has_ns |-> [i \in 1..Len(s.kind) |-> (d + (i \div 2)) % 2 = 0],
     nul    |-> <<>>,
     empty  |-> <<>>]

LastPlace(doc, f) ==
    LET places == { p \in NodesOf(doc) \X (0..MaxAttrs) : HasString(doc, p[1], f, p[2]) }
    IN { <<[node |-> p[1], field |-> f, idx |-> p[2]]>> :
           p \in { q \in places : \A r \in places :
                     r[1] < q[1] \/ (r[1] = q[1] /\ r[2] <= q[2]) } }

OptionalFields == {"namespace", "text"}

Docs ==
    UNION { {doc} \cup { [doc EXCEPT !.nul = z] :
                           z \in UNION { LastPlace(doc, f) : f \in StringFields } }
                  \cup { [doc EXCEPT !.empty = z] :
                           z \in UNION { LastPlace(doc, f) : f \in OptionalFields } } :
            doc \in { Decorated(s, d) : s \in Shapes, d \in 0..MaxAttrs } }

\* The characters of the string at (node, field, idx): distinct strings at
\* distinct places, with an embedded NUL where doc.nul says so, and no
\* character at all where doc.empty says so.
FieldCode(f) ==
    CASE f = "name" -> 1 [] f = "namespace" -> 2 [] f = "key" -> 3
      [] f = "value" -> 4 [] f = "text" -> 5

StrAt(doc, i, f, j) ==
    LET c == 100 * FieldCode(f) + 10 * i + j
    IN IF doc.nul = <<[node |-> i, field |-> f, idx |-> j]>> THEN <<c, NUL, c>>
       ELSE IF doc.empty = <<[node |-> i, field |-> f, idx |-> j]>> THEN <<>>
       ELSE <<c>>

\* --- the Node API used by the builder ---
root_element(doc) == 1

\* is_element answering yes for a node of any kind.
is_element_any_kind(doc, i) == doc.kind[i] \in NodeKinds

is_element(doc, i) == doc.kind[i] = "element"

\* node.children(): the child nodes of i, of every kind, in document order.
children(doc, i) ==
    LET IsChild(j) == doc.parent[j] = i
    IN SelectSeq([k \in NodesOf(doc) |-> k], IsChild)

\* node.children().filter(|n| n.is_element())
element_children(doc, i) ==
    LET IsElem(j) == is_element(doc, j)
    IN SelectSeq(children(doc, i), IsElem)

\* node.tag_name(): the local name and the optional namespace
\* (<<>> is None, <<s>> is Some(s)).
tag_name(doc, i) ==
    [name |-> StrAt(doc, i, "name", 0),
     namespace |-> IF doc.has_ns[i] THEN <<StrAt(doc, i, "namespace", 0)>> ELSE <<>>]

\* node.attributes(): the attributes of i in document order.
attributes(doc, i) ==
    [j \in 1..doc.nattrs[i] |->
        [name |-> StrAt(doc, i, "key", j), value |-> StrAt(doc, i, "value", j)]]

\* node.text(): the text of the first child when that child is a text node.
text(doc, i) ==
    LET ch == children(doc, i)
    IN IF ch # <<>> /\ doc.kind[ch[1]] = "text"
       THEN <<StrAt(doc, ch[1], "text", 0)>> ELSE <<>>

\* The number of element start tags of the document.
StartTags(doc) == Cardinality({i \in NodesOf(doc) : doc.kind[i] = "element"})

\* ------------------------------------------------------------------------
\* The heap.  mem maps each live address to its allocation [kind, v]:
\*   "cstring"  v = the bytes, terminator included
\*   "attrs"    v = a sequence of XamlAttribute [key, value]
\*   "children" v = a sequence of *mut XamlElement
\*   "node"     v = a XamlElement
\* A call threads a record H through its steps:
\*   mem      the heap
\*   alog     the addresses allocated, in order
\*   flog     the addresses freed, in order
\*   panicked an unwrap failed: every later step is skipped
\*   ub       the deallocator touched memory it does not own
\*   ret      the value of the last expression
\*   walks    the iterations asked of the parsed document, in order:
\*            [node, of] for node.attributes() and node.children()
\*   frames   the locals of the active calls of the builder, innermost last
\* ------------------------------------------------------------------------
NoMem == << >>

Live(mem) == DOMAIN mem

\* The allocator hands out the lowest address that is not live.
Fresh(mem) ==
    CHOOSE a \in 1..(Cardinality(Live(mem)) + 1) :
        a \notin Live(mem) /\ \A b \in 1..(a - 1) : b \in Live(mem)

StartCall(mem) ==
    [mem |-> mem, alog |-> <<>>, flog |-> <<>>, panicked |-> FALSE, ub |-> FALSE,
     ret |-> NULL, walks |-> <<>>, frames |-> <<>>]

\* Box::into_raw(Box::new(v)) and its kin: one new allocation, owned by
\* nobody but the raw pointer returned.
Alloc(H, kind, v) ==
    IF H.panicked THEN H
    ELSE [H EXCEPT !.mem = (Fresh(H.mem) :> [kind |-> kind, v |-> v]) @@ H.mem,
                   !.alog = Append(H.alog, Fresh(H.mem)),
                   !.ret = Fresh(H.mem)]

\* CString::new(s).unwrap().into_raw(): the bytes of s followed by the
\* terminator; CString::new fails on an interior NUL and unwrap panics.
CStringNew(H, s) ==
    IF H.panicked THEN H
    ELSE IF HasNul(s) THEN [H EXCEPT !.panicked = TRUE]
    ELSE Alloc(H, "cstring", Append(s, NUL))

\* CStringOpt giving a null pointer for an empty string as well.
CStringOpt_empty_is_null(H, opt) ==
    IF H.panicked THEN H
    ELSE IF opt = <<>> \/ opt = << <<>> >> THEN [H EXCEPT !.ret = NULL]
    ELSE CStringNew(H, opt[1])

\* if let Some(x) = opt { CString::new(x).unwrap().into_raw() } else { null_mut() }
CStringOpt(H, opt) ==
    IF H.panicked THEN H
    ELSE IF opt = <<>> THEN [H EXCEPT !.ret = NULL]
    ELSE CStringNew(H, opt[1])

\* ------------------------------------------------------------------------
\* The tree builder.
\* ------------------------------------------------------------------------
\* The locals of one call of convert_node_to_xaml_element (key holds the
\* key of the attribute being mapped).
NewFrame ==
    [name |-> NULL, namespace |-> NULL, key |-> NULL, attrs |-> <<>>,
     children |-> <<>>, text_content |-> NULL, attributes_ptr |-> NULL,
     children_ptr |-> NULL]

\* node.attributes() or node.children(): a new iteration over node i.
Walk(H, i, what) ==
    IF H.panicked THEN H ELSE [H EXCEPT !.walks = Append(@, [node |-> i, of |-> what])]

Enter(H) == IF H.panicked THEN H ELSE [H EXCEPT !.frames = Append(H.frames, NewFrame)]

Top(H) == H.frames[Len(H.frames)]

\* let local = <the last expression>;
Let(H, local) ==
    IF H.panicked THEN H ELSE [H EXCEPT !.frames[Len(H.frames)][local] = H.ret]

\* Push putting the new item in front of the ones collected so far.
Push_in_front(H, local, v) ==
    IF H.panicked THEN H
    ELSE [H EXCEPT !.frames[Len(H.frames)][local] = <<v>> \o @]

\* The last expression is collected into the Vec local.
Push(H, local, v) ==
    IF H.panicked THEN H
    ELSE [H EXCEPT !.frames[Len(H.frames)][local] = Append(@, v)]

\* node.attributes().count() and
\* node.children().filter(|n| n.is_element()).count(): the two length
\* fields are counted by a traversal of their own.
attributes_count(doc, i) == Len(attributes(doc, i))

\* children_count without the is_element filter.
children_count_unfiltered(doc, i) == Len(children(doc, i))

children_count(doc, i) == Len(element_children(doc, i))

\* PushAttr storing the key buffer in the value field as well.
PushAttr_value_is_key(H) ==
    IF H.panicked THEN H ELSE Push(H, "attrs", [key |-> Top(H).key, value |-> Top(H).key])

\* XamlAttribute { key: <the key local>, value: <the last expression> }
PushAttr(H) ==
    IF H.panicked THEN H ELSE Push(H, "attrs", [key |-> Top(H).key, value |-> H.ret])

\* node.attributes().map(|attr| XamlAttribute {..}).collect(): key, then
\* value, of each attribute in turn.
RECURSIVE CollectAttrs(_, _, _)
CollectAttrs(H, as, j) ==
    IF H.panicked \/ j > Len(as) THEN H
    ELSE CollectAttrs(
             PushAttr(CStringNew(Let(CStringNew(H, as[j].name), "key"), as[j].value)),
             as, j + 1)

\* Box::into_raw(Box::new(<the last expression>))
BoxNew(H) == IF H.panicked THEN H ELSE Alloc(H, "node", H.ret)

PushChild(H) == IF H.panicked THEN H ELSE Push(H, "children", H.ret)

RECURSIVE convert_node_to_xaml_element(_, _, _)

\* ...map(|child| Box::into_raw(Box::new(convert_node_to_xaml_element(child))))
\*    .collect(): each child is converted, then boxed, in document order.
RECURSIVE CollectChildren(_, _, _, _)
CollectChildren(doc, H, cs, j) ==
    IF H.panicked \/ j > Len(cs) THEN H
    ELSE CollectChildren(
             doc, PushChild(BoxNew(convert_node_to_xaml_element(doc, cs[j], H))),
             cs, j + 1)

\* BoxedSliceOrNull without the is_empty test.
BoxedSliceAlways(H, kind, v) == Alloc(H, kind, v)

\* if v.is_empty() { null_mut() } else { Box::into_raw(v.into_boxed_slice()) }
BoxedSliceOrNull(H, kind, v) ==
    IF H.panicked THEN H
    ELSE IF v = <<>> THEN [H EXCEPT !.ret = NULL]
    ELSE Alloc(H, kind, v)

AttributesPtr(H) ==
    IF H.panicked THEN H ELSE BoxedSliceOrNull(H, "attrs", Top(H).attrs)

ChildrenPtr(H) ==
    IF H.panicked THEN H ELSE BoxedSliceOrNull(H, "children", Top(H).children)

\* Assemble taking children_len from a count of the boxed nodes of the
\* whole process (a static counter) instead of the children of this node.
Assemble_counts_all_nodes(doc, i, H) ==
    IF H.panicked THEN H
    ELSE [H EXCEPT !.ret =
            [name           |-> Top(H).name,
             namespace      |-> Top(H).namespace,
             attributes     |-> Top(H).attributes_ptr,
             attributes_len |-> attributes_count(doc, i),
             children       |-> Top(H).children_ptr,
             children_len   |-> Cardinality({a \in Live(H.mem) : H.mem[a].kind = "node"}),
             text_content   |-> Top(H).text_content],
          !.walks = @ \o <<[node |-> i, of |-> "attributes"],
                           [node |-> i, of |-> "children"]>>,
          !.frames = SubSeq(H.frames, 1, Len(H.frames) - 1)]

\* XamlElement { name, namespace, attributes: attributes_ptr, .. }: the
\* value returned, the locals going out of scope.  The two length fields
\* come from iterations of their own.
Assemble(doc, i, H) ==
    IF H.panicked THEN H
    ELSE [H EXCEPT !.ret =
            [name           |-> Top(H).name,
             namespace      |-> Top(H).namespace,
             attributes     |-> Top(H).attributes_ptr,
             attributes_len |-> attributes_count(doc, i),
             children       |-> Top(H).children_ptr,
             children_len   |-> children_count(doc, i),
             text_content   |-> Top(H).text_content],
          !.walks = @ \o <<[node |-> i, of |-> "attributes"],
                           [node |-> i, of |-> "children"]>>,
          !.frames = SubSeq(H.frames, 1, Len(H.frames) - 1)]

\* The statements of convert_node_to_xaml_element, each applied to the
\* result of the one before it (innermost first): name, namespace, attrs,
\* children, text_content, attributes_ptr, children_ptr, the XamlElement.
convert_node_to_xaml_element(doc, i, H) ==
    Assemble(doc, i,
      Let(ChildrenPtr(
        Let(AttributesPtr(
          Let(CStringOpt(
            CollectChildren(doc,
              Walk(CollectAttrs(
                Walk(Let(CStringOpt(
                  Let(CStringNew(Enter(H), tag_name(doc, i).name), "name"),
                  tag_name(doc, i).namespace), "namespace"), i, "attributes"),
                attributes(doc, i), 1), i, "children"),
              element_children(doc, i), 1),
            text(doc, i)), "text_content")),
          "attributes_ptr")),
        "children_ptr"))

\* ------------------------------------------------------------------------
\* build.  The input xml is NoXml (a null pointer) or a record
\*   utf8 : the bytes are valid UTF-8
\*   wf   : the text is well-formed markup
\*   doc  : the document the parser returns for it
\* The result of a call is a record
\*   panicked     : an unwrap failed: the process aborts at the extern "C"
\*                  boundary and the call returns nothing
\*   status       : <<s>> when the call returned status s, <<>> when it
\*                  did not return
\*   written      : the values stored through result, in order
\*   to_str_calls, parser_calls : uses of CStr::to_str and Document::parse
\*   mem, alog, flog, ub : the heap after the call and the call's allocation
\*                  and free events
\*   walks        : the iterations the call asked of the parsed document
\* ------------------------------------------------------------------------
NoXml == [present |-> FALSE, utf8 |-> FALSE, wf |-> FALSE, doc |-> <<>>]

Xml(utf8, wf, doc) == [present |-> TRUE, utf8 |-> utf8, wf |-> wf, doc |-> doc]

\* CStr::from_ptr(xml).to_str()
to_str(xml) == IF xml.utf8 THEN <<xml>> ELSE <<>>

\* Document::parse(xml_str)
Document_parse(xml) == IF xml.wf THEN <<xml.doc>> ELSE <<>>

Returned(H, status, written, to_str_calls, parser_calls) ==
    [panicked |-> H.panicked, status |-> IF H.panicked THEN <<>> ELSE <<status>>,
     written |-> written,
     to_str_calls |-> to_str_calls, parser_calls |-> parser_calls,
     mem |-> H.mem, alog |-> H.alog, flog |-> H.flog, ub |-> H.ub,
     walks |-> H.walks]

\* What the caller and the allocation accounting see of a call.
Observed(r) == [f \in DOMAIN r \ {"mem"} |-> r[f]]

\* convert_node_to_xaml_element(doc.root_element()), Box::new, into_raw
BoxedRoot(doc, mem) ==
    BoxNew(convert_node_to_xaml_element(doc, root_element(doc), StartCall(mem)))

\* unsafe { *result = Box::into_raw(boxed) }; 0
StoreAndReturn(H) ==
    IF H.panicked THEN Returned(H, 0, <<>>, 1, 1) ELSE Returned(H, 0, <<H.ret>>, 1, 1)

\* parse_xaml with `*result = null_mut()` added on the failure paths.
parse_xaml_clears_result(xml, result, mem) ==
    IF ~xml.present \/ ~result THEN Returned(StartCall(mem), -1, <<>>, 0, 0)
    ELSE IF to_str(xml) = <<>> THEN Returned(StartCall(mem), -2, <<NULL>>, 1, 0)
    ELSE IF Document_parse(to_str(xml)[1]) = <<>>
         THEN Returned(StartCall(mem), -3, <<NULL>>, 1, 1)
    ELSE StoreAndReturn(BoxedRoot(Document_parse(to_str(xml)[1])[1], mem))

\* parse_xaml with the statuses of the encoding and the parse failure
\* exchanged.
parse_xaml_swapped_codes(xml, result, mem) ==
    IF ~xml.present \/ ~result THEN Returned(StartCall(mem), -1, <<>>, 0, 0)
    ELSE IF to_str(xml) = <<>> THEN Returned(StartCall(mem), -3, <<>>, 1, 0)
    ELSE IF Document_parse(to_str(xml)[1]) = <<>>
         THEN Returned(StartCall(mem), -2, <<>>, 1, 1)
    ELSE StoreAndReturn(BoxedRoot(Document_parse(to_str(xml)[1])[1], mem))

\* parse_xaml with the null check of xml moved after the parse step: an
\* absent input is decoded and parsed as an empty text first.
parse_xaml_late_null_check(xml, result, mem) ==
    IF ~result THEN Returned(StartCall(mem), -1, <<>>, 0, 0)
    ELSE IF xml.present /\ to_str(xml) = <<>> THEN Returned(StartCall(mem), -2, <<>>, 1, 0)
    ELSE IF xml.present /\ Document_parse(to_str(xml)[1]) = <<>>
         THEN Returned(StartCall(mem), -3, <<>>, 1, 1)
    ELSE IF ~xml.present THEN Returned(StartCall(mem), -1, <<>>, 1, 1)
    ELSE StoreAndReturn(BoxedRoot(Document_parse(to_str(xml)[1])[1], mem))

\* parse_xaml with the null check of result moved to the place where
\* result is used: the input is decoded and parsed first.
parse_xaml_result_checked_late(xml, result, mem) ==
    IF ~xml.present THEN Returned(StartCall(mem), -1, <<>>, 0, 0)
    ELSE IF to_str(xml) = <<>> THEN Returned(StartCall(mem), -2, <<>>, 1, 0)
    ELSE IF Document_parse(to_str(xml)[1]) = <<>>
         THEN Returned(StartCall(mem), -3, <<>>, 1, 1)
    ELSE IF ~result THEN Returned(StartCall(mem), -1, <<>>, 1, 1)
    ELSE StoreAndReturn(BoxedRoot(Document_parse(to_str(xml)[1])[1], mem))

parse_xaml(xml, result, mem) ==
    IF ~xml.present \/ ~result THEN Returned(StartCall(mem), -1, <<>>, 0, 0)
    ELSE IF to_str(xml) = <<>> THEN Returned(StartCall(mem), -2, <<>>, 1, 0)
    ELSE IF Document_parse(to_str(xml)[1]) = <<>>
         THEN Returned(StartCall(mem), -3, <<>>, 1, 1)
    ELSE StoreAndReturn(BoxedRoot(Document_parse(to_str(xml)[1])[1], mem))

\* ------------------------------------------------------------------------
\* The deallocator.
\* ------------------------------------------------------------------------
\* Dropping an owner rebuilt from a raw pointer (CString::from_raw,
\* Box::from_raw): the allocation at a is released.  Releasing an address
\* that is not live is a double free.
Free(H, a) ==
    IF a \in Live(H.mem)
    THEN [H EXCEPT !.mem = [b \in Live(H.mem) \ {a} |-> H.mem[b]],
                   !.flog = Append(H.flog, a)]
    ELSE [H EXCEPT !.ub = TRUE, !.flog = Append(H.flog, a)]

\* if !p.is_null() { let _ = CString::from_raw(p); }
FreeCString(H, p) == IF p = NULL THEN H ELSE Free(H, p)

Min(a, b) == IF a <= b THEN a ELSE b

\* for attr in attrs.iter() { free key; free value }
RECURSIVE FreeAttrPairs(_, _, _, _)
FreeAttrPairs(H, items, j, n) ==
    IF j > n THEN H
    ELSE FreeAttrPairs(FreeCString(FreeCString(H, items[j].key), items[j].value),
                       items, j + 1, n)

\* Box::from_raw(slice::from_raw_parts_mut(p, len)), the loop over the
\* pairs, and the drop of the boxed slice at the end of the block.  A len
\* that differs from the allocated length is undefined behaviour.
\* FreeAttrArray with the boxed slice leaked (mem::forget) after the loop.
FreeAttrArray_leaks_array(H, p, len) ==
    IF p = NULL THEN H
    ELSE IF p \notin Live(H.mem) THEN [H EXCEPT !.ub = TRUE]
    ELSE LET items == H.mem[p].v
             H1 == IF len = Len(items) THEN H ELSE [H EXCEPT !.ub = TRUE]
         IN FreeAttrPairs(H1, items, 1, Min(len, Len(items)))

FreeAttrArray(H, p, len) ==
    IF p = NULL THEN H
    ELSE IF p \notin Live(H.mem) THEN [H EXCEPT !.ub = TRUE]
    ELSE LET items == H.mem[p].v
             H1 == IF len = Len(items) THEN H ELSE [H EXCEPT !.ub = TRUE]
         IN Free(FreeAttrPairs(H1, items, 1, Min(len, Len(items))), p)

RECURSIVE free_xaml_element_internal(_, _)
RECURSIVE FreeChildNodes(_, _, _, _)

\* for &child_ptr in children.iter() { if !child_ptr.is_null() { recurse } }
FreeChildNodes(H, items, j, n) ==
    IF j > n THEN H
    ELSE FreeChildNodes(IF items[j] = NULL THEN H
                        ELSE free_xaml_element_internal(H, items[j]),
                        items, j + 1, n)

\* FreeChildArray dropping the boxed slice before the loop over the
\* children instead of after it.
FreeChildArray_array_first(H, p, len) ==
    IF p = NULL THEN H
    ELSE IF p \notin Live(H.mem) THEN [H EXCEPT !.ub = TRUE]
    ELSE FreeChildNodes(Free(H, p), H.mem[p].v, 1, Min(len, Len(H.mem[p].v)))

FreeChildArray(H, p, len) ==
    IF p = NULL THEN H
    ELSE IF p \notin Live(H.mem) THEN [H EXCEPT !.ub = TRUE]
    ELSE LET items == H.mem[p].v
             H1 == IF len = Len(items) THEN H ELSE [H EXCEPT !.ub = TRUE]
         IN Free(FreeChildNodes(H1, items, 1, Min(len, Len(items))), p)

\* free_xaml_element_internal releasing the strings of the element after
\* its two arrays instead of before them.
free_xaml_element_internal_strings_last(H, e) ==
    IF e \notin Live(H.mem) THEN [H EXCEPT !.ub = TRUE]
    ELSE Free(FreeCString(FreeCString(FreeCString(
                FreeChildArray(
                    FreeAttrArray(H, H.mem[e].v.attributes, H.mem[e].v.attributes_len),
                    H.mem[e].v.children, H.mem[e].v.children_len),
                H.mem[e].v.name), H.mem[e].v.namespace), H.mem[e].v.text_content), e)

\* The element is owned by the Box passed in: its strings are released
\* first, then the attribute pairs and their array, then the children and
\* their array, and the node itself when the Box goes out of scope.
free_xaml_element_internal(H, e) ==
    IF e \notin Live(H.mem) THEN [H EXCEPT !.ub = TRUE]
    ELSE LET el == H.mem[e].v
             H1 == FreeCString(H, el.name)
             H2 == FreeCString(H1, el.namespace)
             H3 == FreeCString(H2, el.text_content)
             H4 == FreeAttrArray(H3, el.attributes, el.attributes_len)
             H5 == FreeChildArray(H4, el.children, el.children_len)
         IN Free(H5, e)

\* free_xaml_element without its null check.
free_xaml_element_unchecked(element, mem) ==
    Returned(free_xaml_element_internal(StartCall(mem), element), 0, <<>>, 0, 0)

free_xaml_element(element, mem) ==
    LET H0 == StartCall(mem)
    IN IF element = NULL THEN Returned(H0, -1, <<>>, 0, 0)
       ELSE Returned(free_xaml_element_internal(H0, element), 0, <<>>, 0, 0)

\* ------------------------------------------------------------------------
\* The state machine: one caller on the other side of the boundary.
\*   markup  : the well-formed markup text the caller has at hand
\*   mem     : the heap
\*   out     : the caller's output location (*result)
\*   owned   : the root handle the caller holds, NULL when it holds none
\*   made    : allocation accounting: the addresses allocated by the build
\*             that returned the tree the caller last owned
\*   crashed : the process was aborted by a panic
\*   last    : the last call: its operation, its arguments and its result
\*   callers : the execution contexts of the two-caller specification below
\*             (none in this one)
\* ------------------------------------------------------------------------
VARIABLES markup, mem, out, owned, made, crashed, last, callers

vars == <<markup, mem, out, owned, made, crashed, last, callers>>

Range(q) == {q[j] : j \in 1..Len(q)}

\* An input that is not valid UTF-8, and one that is but is not well-formed.
BadEncoding == Xml(FALSE, FALSE, <<>>)

Malformed == Xml(TRUE, FALSE, <<>>)

NoCall ==
    [op |-> "none", xml |-> NoXml, result |-> FALSE, element |-> NULL,
     res |-> [Observed(Returned(StartCall(NoMem), 0, <<>>, 0, 0)) EXCEPT !.status = <<>>]]

\* Before the first call the output location holds whatever the caller left
\* there: a null pointer or a value that is no handle.
Init ==
    /\ markup \in {Xml(TRUE, TRUE, d) : d \in Docs}
    /\ mem = NoMem
    /\ out \in {NULL, -1}
    /\ owned = NULL
    /\ made = {}
    /\ crashed = FALSE
    /\ last = NoCall
    /\ callers = <<>>

\* The caller calls parse_xaml(xml, result), result being null or the
\* address of its output location, while it holds no tree; it owns the
\* handle only when the status is 0.
Stored(r, before) == IF r.written = <<>> THEN before ELSE r.written[Len(r.written)]

BuildReturns(xml, result, r) ==
    /\ mem' = r.mem
    /\ out' = Stored(r, out)
    /\ owned' = IF r.status = <<0>> THEN Stored(r, out) ELSE NULL
    /\ made' = IF r.status = <<0>> THEN Range(r.alog) ELSE made
    /\ crashed' = r.panicked
    /\ last' = [op |-> "build", xml |-> xml, result |-> result,
                element |-> NULL, res |-> Observed(r)]

Build(xml, result) ==
    /\ ~crashed
    /\ owned = NULL
    /\ BuildReturns(xml, result, parse_xaml(xml, result, mem))
    /\ UNCHANGED <<markup, callers>>

\* The caller calls free_xaml_element(element) on a null handle or on the
\* handle it holds, which it gives up.
ReleaseReturns(element, r) ==
    /\ mem' = r.mem
    /\ crashed' = r.panicked
    /\ last' = [op |-> "release", xml |-> NoXml, result |-> FALSE,
                element |-> element, res |-> Observed(r)]

Release(element) ==
    /\ ~crashed
    /\ element \in {NULL, owned}
    /\ ReleaseReturns(element, free_xaml_element(element, mem))
    /\ owned' = IF element = NULL THEN owned ELSE NULL
    /\ UNCHANGED <<markup, out, made, callers>>

\* The caller passes its markup, or no input, or a badly encoded or
\* malformed one.
Next ==
    \/ \E xml \in {markup, NoXml, BadEncoding, Malformed}, result \in BOOLEAN :
         Build(xml, result)
    \/ \E element \in {NULL, owned} : Release(element)

Spec == Init /\ [][Next]_vars

\* ------------------------------------------------------------------------
\* Reading a tree the way its owner does.
\* ------------------------------------------------------------------------
\* The entries of the array at p, <<>> for a null pointer.
Entries(m, p) == IF p = NULL THEN <<>> ELSE m[p].v

\* The node addresses of the tree rooted at e, by a full traversal through
\* the child arrays.
RECURSIVE TreeNodes(_, _)
TreeNodes(m, e) ==
    {e} \cup UNION { TreeNodes(m, Entries(m, m[e].v.children)[j]) :
                       j \in 1..Len(Entries(m, m[e].v.children)) }

\* The number of nodes met by that traversal.
RECURSIVE CountNodes(_, _)
RECURSIVE CountFrom(_, _, _)
CountFrom(m, kids, j) ==
    IF j > Len(kids) THEN 0 ELSE CountNodes(m, kids[j]) + CountFrom(m, kids, j + 1)

CountNodes(m, e) == 1 + CountFrom(m, Entries(m, m[e].v.children), 1)

\* The characters of the C string at p, its terminator left out.
Chars(m, p) == SubSeq(m[p].v, 1, Len(m[p].v) - 1)

\* A string field as its owner reads it: <<>> for a null pointer.
Str(m, p) == IF p = NULL THEN <<>> ELSE <<Chars(m, p)>>

\* The tree rooted at e as its owner reads it, addresses left out: the
\* strings, the lengths, whether each array pointer is null, the pairs and
\* the children in array order.
RECURSIVE Shape(_, _)
Shape(m, e) ==
    [name |-> Str(m, m[e].v.name),
     namespace |-> Str(m, m[e].v.namespace),
     text_content |-> Str(m, m[e].v.text_content),
     attributes_len |-> m[e].v.attributes_len,
     children_len |-> m[e].v.children_len,
     attributes_null |-> m[e].v.attributes = NULL,
     children_null |-> m[e].v.children = NULL,
     attributes |-> [j \in 1..Len(Entries(m, m[e].v.attributes)) |->
                       [key |-> Str(m, Entries(m, m[e].v.attributes)[j].key),
                        value |-> Str(m, Entries(m, m[e].v.attributes)[j].value)]],
     children |-> [j \in 1..Len(Entries(m, m[e].v.children)) |->
                     Shape(m, Entries(m, m[e].v.children)[j])]]

\* Every address the tree rooted at e refers to: nodes, strings and arrays.
RECURSIVE Reach(_, _)
Reach(m, e) ==
    (({e, m[e].v.name, m[e].v.namespace, m[e].v.text_content, m[e].v.attributes,
       m[e].v.children}
      \cup UNION { {Entries(m, m[e].v.attributes)[j].key,
                    Entries(m, m[e].v.attributes)[j].value} :
                     j \in 1..Len(Entries(m, m[e].v.attributes)) }) \ {NULL})
    \cup UNION { Reach(m, Entries(m, m[e].v.children)[j]) :
                   j \in 1..Len(Entries(m, m[e].v.children)) }

\* ------------------------------------------------------------------------
\* Two callers.  Each execution context calls parse_xaml once, on its own
\* input and its own output location, and later releases the tree it got.
\* The two calls run at the same time: convert_node_to_xaml_element is
\* taken one statement at a time, each statement working on the locals of
\* its own call and on the one heap of the process.  A step of a caller
\* runs its statements up to and including the next one that allocates
\* (the statements before it touch nothing but the locals of the call), so
\* that the allocations of the two calls interleave in every order.  A
\* panic in either context aborts the process.  A caller is a record
\*   xml     : its input
\*   pc      : "idle", "building", "holding" (it owns a tree), "released",
\*             or "returned" (parse_xaml returned a failure status)
\*   ctl     : the statement each active call of the builder is at,
\*             innermost last: [node, at, j]
\*   H       : the locals and the allocation log of its call (H.mem unused)
\*   status  : <<s>> once parse_xaml returned s
\*   handle  : its output location
\*   after   : it called parse_xaml after the other caller's call returned
\*   steps   : the statements its call has executed
\*   seen    : <<the tree as the caller read it when parse_xaml returned 0>>
\*   freed   : the result of its release
\* ------------------------------------------------------------------------
Callers == 1..2

Other(t) == 3 - t

\* The inputs of the two callers: the documents of at most MaxPairNodes
\* elements and texts whose tree takes at most MaxPairAllocs allocations,
\* with any attribute counts and namespaces; the name of the last element
\* may hold a NUL.
PairShapes ==
    { s \in Shapes :
        Len(s.kind) <= MaxPairNodes /\ \A i \in 1..Len(s.kind) : s.kind[i] \in {"element", "text"} }

Adorned(s, na, ns) ==
    [kind |-> s.kind, parent |-> s.parent, nattrs |-> na, has_ns |-> ns,
     nul |-> <<>>, empty |-> <<>>]

Adornments(s) ==
    { Adorned(s, na, ns) :
        na \in { f \in [1..Len(s.kind) -> 0..MaxAttrs] :
                   \A i \in 1..Len(s.kind) : s.kind[i] # "element" => f[i] = 0 },
        ns \in { f \in [1..Len(s.kind) -> BOOLEAN] :
                   \A i \in 1..Len(s.kind) : s.kind[i] # "element" => ~f[i] } }

PairDocs ==
    UNION { {doc} \cup { [doc EXCEPT !.nul = z] : z \in LastPlace(doc, "name") } :
            doc \in { d \in UNION { Adornments(s) : s \in PairShapes } :
                        Len(BoxedRoot(d, NoMem).alog) <= MaxPairAllocs } }

PairInputs == {Xml(TRUE, TRUE, d) : d \in PairDocs} \cup {Malformed}

\* The two callers are alike: the first one's input is free of NUL and
\* well-formed unless both have the same input.
NulFree(xml) == xml.wf /\ xml.doc.nul = <<>>

InputPairs == { x \in PairInputs \X PairInputs : NulFree(x[1]) \/ x[1] = x[2] }

Site(i, at, j) == [node |-> i, at |-> at, j |-> j]

NewCaller(xml) ==
    [xml |-> xml, pc |-> "idle", ctl |-> <<>>, H |-> StartCall(NoMem),
     status |-> <<>>, handle |-> NULL, after |-> FALSE, steps |-> 0,
     seen |-> <<>>, freed |-> <<>>]

\* The statement that follows the attribute closure / the child closure of
\* the j-1 first items: the next item, or the statement after the collect.
AfterChild(doc, i, j) ==
    IF j <= Len(element_children(doc, i)) THEN Site(i, "call", j) ELSE Site(i, "text", 0)

AfterAttr(doc, i, j) ==
    IF j <= Len(attributes(doc, i)) THEN Site(i, "key", j) ELSE Site(i, "children", 0)

NextSite(doc, c) ==
    CASE c.at = "name" -> Site(c.node, "namespace", 0)
      [] c.at = "namespace" -> Site(c.node, "attrs", 0)
      [] c.at = "attrs" -> AfterAttr(doc, c.node, 1)
      [] c.at = "children" -> AfterChild(doc, c.node, 1)
      [] c.at = "key" -> Site(c.node, "value", c.j)
      [] c.at = "value" -> AfterAttr(doc, c.node, c.j + 1)
      [] c.at = "call" -> Site(c.node, "box", c.j)
      [] c.at = "box" -> AfterChild(doc, c.node, c.j + 1)
      [] c.at = "text" -> Site(c.node, "attributes_ptr", 0)
      [] c.at = "attributes_ptr" -> Site(c.node, "children_ptr", 0)
      [] c.at = "children_ptr" -> Site(c.node, "return", 0)
      [] c.at = "return" -> c
      [] c.at = "store" -> c

\* The statement at site c of convert_node_to_xaml_element, applied to H.
Statement(doc, c, H) ==
    CASE c.at = "name" -> Let(CStringNew(Enter(H), tag_name(doc, c.node).name), "name")
      [] c.at = "namespace" ->
           Let(CStringOpt(H, tag_name(doc, c.node).namespace), "namespace")
      [] c.at = "attrs" -> Walk(H, c.node, "attributes")
      [] c.at = "children" -> Walk(H, c.node, "children")
      [] c.at = "key" -> Let(CStringNew(H, attributes(doc, c.node)[c.j].name), "key")
      [] c.at = "value" -> PushAttr(CStringNew(H, attributes(doc, c.node)[c.j].value))
      [] c.at = "call" -> H
      [] c.at = "box" -> PushChild(BoxNew(H))
      [] c.at = "text" -> Let(CStringOpt(H, text(doc, c.node)), "text_content")
      [] c.at = "attributes_ptr" -> Let(AttributesPtr(H), "attributes_ptr")
      [] c.at = "children_ptr" -> Let(ChildrenPtr(H), "children_ptr")
      [] c.at = "return" -> Assemble(doc, c.node, H)
      [] c.at = "store" -> BoxNew(H)

\* The active calls after the statement at the innermost site: a call of
\* the builder on a child is entered, the innermost call returns, or the
\* innermost call moves to its next statement.  The outermost site is
\* parse_xaml boxing and storing the root.
Control(doc, ctl) ==
    IF ctl[Len(ctl)].at \in {"return", "store"} THEN SubSeq(ctl, 1, Len(ctl) - 1)
    ELSE IF ctl[Len(ctl)].at = "call"
    THEN Append([ctl EXCEPT ![Len(ctl)] = NextSite(doc, ctl[Len(ctl)])],
                Site(element_children(doc, ctl[Len(ctl)].node)[ctl[Len(ctl)].j],
                     "name", 0))
    ELSE [ctl EXCEPT ![Len(ctl)] = NextSite(doc, ctl[Len(ctl)])]

\* The status parse_xaml returns before it converts any node, <<>> when it
\* goes on to convert.
Prologue(xml, result) ==
    IF ~xml.present \/ ~result THEN <<-1>>
    ELSE IF to_str(xml) = <<>> THEN <<-2>>
    ELSE IF Document_parse(to_str(xml)[1]) = <<>> THEN <<-3>>
    ELSE <<>>

HasReturned(c) == c.pc \in {"holding", "released", "returned"}

PairInit ==
    /\ callers \in {[t \in Callers |-> NewCaller(x[t])] : x \in InputPairs}
    /\ mem = NoMem
    /\ crashed = FALSE
    /\ markup = NoXml
    /\ out = NULL
    /\ owned = NULL
    /\ made = {}
    /\ last = NoCall

\* Caller t calls parse_xaml(xml, &handle): the checks of the arguments,
\* the decoding and the parse.
Begun(t, status) ==
    /\ callers' = [callers EXCEPT
         ![t] = [@ EXCEPT !.pc = IF status = <<>> THEN "building" ELSE "returned",
                          !.status = status,
                          !.ctl = IF status = <<>>
                                  THEN <<Site(0, "store", 0), Site(1, "name", 0)>>
                                  ELSE <<>>,
                          !.after = HasReturned(callers[Other(t)])]]
    /\ UNCHANGED <<markup, mem, out, owned, made, crashed, last>>

Begin(t) ==
    /\ ~crashed
    /\ callers[t].pc = "idle"
    /\ Begun(t, Prologue(callers[t].xml, TRUE))

\* One statement of a call: S holds its locals and log H, its sites ctl
\* and the count of statements executed.
After(doc, S) ==
    [H |-> Statement(doc, S.ctl[Len(S.ctl)], S.H),
     ctl |-> IF Statement(doc, S.ctl[Len(S.ctl)], S.H).panicked THEN S.ctl
             ELSE Control(doc, S.ctl),
     steps |-> S.steps + 1]

\* The statements of a call up to and including the first that allocates
\* or panics, n being the number of allocations made before.
RECURSIVE Block(_, _, _)
Block(doc, S, n) ==
    IF S.H.panicked \/ Len(S.H.alog) > n \/ S.ctl = <<>> THEN S
    ELSE Block(doc, After(doc, S), n)

\* The call of caller t executes its next block on the heap as it is; when
\* no statement is left the root has been stored and 0 is returned.
Stepped(t, S) ==
    /\ mem' = S.H.mem
    /\ crashed' = S.H.panicked
    /\ callers' = [callers EXCEPT
         ![t] = [@ EXCEPT !.H = [S.H EXCEPT !.mem = NoMem],
                          !.ctl = S.ctl,
                          !.steps = S.steps,
                          !.pc = IF S.ctl = <<>> THEN "holding" ELSE "building",
                          !.status = IF S.ctl = <<>> THEN <<0>> ELSE <<>>,
                          !.handle = IF S.ctl = <<>> THEN S.H.ret ELSE NULL,
                          !.seen = IF S.ctl = <<>> THEN <<Shape(S.H.mem, S.H.ret)>>
                                   ELSE <<>>]]
    /\ UNCHANGED <<markup, out, owned, made, last>>

Step(t) ==
    /\ ~crashed
    /\ callers[t].pc = "building"
    /\ Stepped(t, Block(callers[t].xml.doc,
                        [H |-> [callers[t].H EXCEPT !.mem = mem],
                         ctl |-> callers[t].ctl, steps |-> callers[t].steps],
                        Len(callers[t].H.alog)))

\* Caller t releases the tree it holds.
Dropped(t, r) ==
    /\ mem' = r.mem
    /\ callers' = [callers EXCEPT
         ![t] = [@ EXCEPT !.pc = "released", !.freed = <<Observed(r)>>]]
    /\ UNCHANGED <<markup, out, owned, made, crashed, last>>

ReleaseTree(t) ==
    /\ ~crashed
    /\ callers[t].pc = "holding"
    /\ Dropped(t, free_xaml_element(callers[t].handle, mem))

PairNext ==
    \E t \in Callers : Begin(t) \/ Step(t) \/ ReleaseTree(t)

PairSpec == PairInit /\ [][PairNext]_vars

\* The steps being checked.
BuildStep == last'.op = "build" /\ vars' # vars

Built == last.op = "build" /\ last.res.status = <<0>>

\* ------------------------------------------------------------------------
\* C1: a build that returns 0 stored a non-null handle of a live node
\* through result exactly once; a build that returns anything else (or
\* does not return) leaves the output location holding the value it held
\* before the call, and stored nothing.
\* ------------------------------------------------------------------------
C1_OutputCorrelated ==
    [][BuildStep =>
         LET r == last'.res
         IN IF r.status = <<0>>
            THEN /\ Len(r.written) = 1
                 /\ r.written[1] # NULL
                 /\ r.written[1] \in Live(mem')
                 /\ mem'[r.written[1]].kind = "node"
                 /\ out' = r.written[1]
            ELSE /\ r.written = <<>>
                 /\ out' = out]_vars

\* A malformed input was refused while the output location held the handle
\* of an earlier build.
C1_Witness ==
    /\ last.op = "build"
    /\ last.result
    /\ last.res.status = <<-3>>
    /\ out \notin {NULL, -1}

\* ------------------------------------------------------------------------
\* C2: one release of the root returned by a successful build frees every
\* allocation that build made exactly once: none of them stays live, none
\* is freed twice, and nothing else is freed.
\* ------------------------------------------------------------------------
TimesFreed(a) == Cardinality({j \in 1..Len(last.res.flog) : last.res.flog[j] = a})

C2_ReleaseFreesAll ==
    (last.op = "release" /\ last.element # NULL) =>
        /\ ~last.res.ub
        /\ \A a \in made : a \notin Live(mem) /\ TimesFreed(a) = 1
        /\ Range(last.res.flog) = made
        /\ Live(mem) = {}

\* A tree with attributes, a namespace, a text and a nested child was
\* released.
C2_Witness ==
    /\ last.op = "release"
    /\ last.element # NULL
    /\ StartTags(markup.doc) >= 2
    /\ markup.doc.nattrs[1] >= 2
    /\ markup.doc.has_ns[1]
    /\ text(markup.doc, 1) # <<>>
    /\ Cardinality(made) >= 10

C4_LengthsMatchArrays ==
    owned # NULL =>
        \A e \in TreeNodes(mem, owned) :
            /\ mem[e].v.attributes_len = Len(Entries(mem, mem[e].v.attributes))
            /\ mem[e].v.children_len = Len(Entries(mem, mem[e].v.children))

\* A tree is owned whose root has attributes, an element child and a child
\* that is no element.
C4_Witness ==
    /\ owned # NULL
    /\ mem[owned].v.attributes_len >= 2
    /\ mem[owned].v.children_len = 1
    /\ Len(children(markup.doc, 1)) = 2

\* ------------------------------------------------------------------------
\* C5: in the tree the caller owns, for every node and for each of its two
\* arrays, the pointer is null exactly when the length field is 0, and a
\* non-null pointer never addresses an allocation of no entries.
\* ------------------------------------------------------------------------
NullZeroPaired(m, p, len) ==
    /\ (p = NULL) <=> (len = 0)
    /\ p # NULL => p \in Live(m) /\ Len(m[p].v) > 0

C5_NullIffZero ==
    owned # NULL =>
        \A e \in TreeNodes(mem, owned) :
            /\ NullZeroPaired(mem, mem[e].v.attributes, mem[e].v.attributes_len)
            /\ NullZeroPaired(mem, mem[e].v.children, mem[e].v.children_len)

\* A tree is owned with a node that has attributes and no children and a
\* node that has children and no attributes.
C5_Witness ==
    /\ owned # NULL
    /\ \E e \in TreeNodes(mem, owned) :
         mem[e].v.attributes # NULL /\ mem[e].v.children = NULL
    /\ \E e \in TreeNodes(mem, owned) :
         mem[e].v.attributes = NULL /\ mem[e].v.children # NULL

\* ------------------------------------------------------------------------
\* C6, as claimed: a build that does not return success leaves the set of
\* live allocations, and the heap, as they were before the call.
\* ------------------------------------------------------------------------
C6_Original ==
    [][(BuildStep /\ last'.res.status # <<0>>) =>
         (Live(mem') = Live(mem) /\ mem' = mem)]_vars

ExpectedStatus(x, result) ==
    IF ~x.present \/ ~result THEN -1
    ELSE IF ~x.utf8 THEN -2
    ELSE IF ~x.wf THEN -3
    ELSE 0

NulCaptured(doc) ==
    /\ doc.nul # <<>>
    /\ \/ doc.nul[1].field # "text"
       \/ <<doc.nul[1].node>> =
             SubSeq(children(doc, doc.parent[doc.nul[1].node]), 1, 1)

C8_Original ==
    (last.op = "build" /\ last.result /\ last.xml.wf /\ NulCaptured(last.xml.doc)) =>
        /\ last.res.status = <<-4>>
        /\ ~last.res.panicked
        /\ last.res.alog = <<>>

\* ------------------------------------------------------------------------
\* C9: a build on an absent input returns -1 and neither decodes the input
\* nor calls the parser.
\* ------------------------------------------------------------------------
C9_AbsentInputNotParsed ==
    (last.op = "build" /\ ~last.xml.present) =>
        /\ last.res.status = <<-1>>
        /\ last.res.to_str_calls = 0
        /\ last.res.parser_calls = 0

\* An absent input was passed together with a present output location.
C9_Witness ==
    /\ last.op = "build"
    /\ ~last.xml.present
    /\ last.result
    /\ last.res.status = <<-1>>

\* ------------------------------------------------------------------------
\* C10: the tree the caller owns has as many nodes, counted by a full
\* traversal through the child arrays, as its document has element start
\* tags, and the children length of every node is the number of element
\* children of its document element: comments, processing instructions
\* and text nodes add no node and no child.
\* ------------------------------------------------------------------------
\* The element children of document node i, in document order.
DocElementChildren(doc, i) ==
    LET IsElemChild(j) == doc.parent[j] = i /\ doc.kind[j] = "element"
    IN SelectSeq([k \in NodesOf(doc) |-> k], IsElemChild)

RECURSIVE ChildrenMirrorDoc(_, _, _, _)
ChildrenMirrorDoc(m, e, doc, i) ==
    LET kids == DocElementChildren(doc, i)
        ptrs == Entries(m, m[e].v.children)
    IN /\ m[e].v.children_len = Len(kids)
       /\ Len(ptrs) = Len(kids)
       /\ \A j \in 1..Len(kids) : ChildrenMirrorDoc(m, ptrs[j], doc, kids[j])

C10_NodeCountIsStartTags ==
    owned # NULL =>
        /\ CountNodes(mem, owned) = StartTags(markup.doc)
        /\ ChildrenMirrorDoc(mem, owned, markup.doc, 1)

\* A tree is owned whose document has a text, a comment or a processing
\* instruction next to an element child.
C10_Witness ==
    /\ owned # NULL
    /\ CountNodes(mem, owned) = 2
    /\ Len(markup.doc.kind) = 3
    /\ \E i \in NodesOf(markup.doc) : markup.doc.kind[i] \in {"comment", "pi"}

\* ------------------------------------------------------------------------
\* C11: in the tree the caller owns, the j-th pair of a node's attribute
\* array holds the key and the value of the j-th attribute of its document
\* element, and the j-th handle of its child array is the tree built from
\* the j-th element child of that document element, both in document
\* order, at every node.
\* ------------------------------------------------------------------------
PairIs(m, pair, attr) ==
    /\ pair.key # NULL /\ Chars(m, pair.key) = attr.name
    /\ pair.value # NULL /\ Chars(m, pair.value) = attr.value

RECURSIVE OrderMirrorsDoc(_, _, _, _)
OrderMirrorsDoc(m, e, doc, i) ==
    /\ Chars(m, m[e].v.name) = StrAt(doc, i, "name", 0)
    /\ Len(Entries(m, m[e].v.attributes)) = doc.nattrs[i]
    /\ \A j \in 1..doc.nattrs[i] :
         PairIs(m, Entries(m, m[e].v.attributes)[j],
                [name |-> StrAt(doc, i, "key", j), value |-> StrAt(doc, i, "value", j)])
    /\ Len(Entries(m, m[e].v.children)) = Len(DocElementChildren(doc, i))
    /\ \A j \in 1..Len(DocElementChildren(doc, i)) :
         OrderMirrorsDoc(m, Entries(m, m[e].v.children)[j], doc,
                         DocElementChildren(doc, i)[j])

C11_DocumentOrder == owned # NULL => OrderMirrorsDoc(mem, owned, markup.doc, 1)

\* A tree is owned whose root has two attributes and two element children.
C11_Witness ==
    /\ owned # NULL
    /\ Len(Entries(mem, mem[owned].v.attributes)) = 2
    /\ Len(Entries(mem, mem[owned].v.children)) = 2

\* ------------------------------------------------------------------------
\* The two-caller specification: what a call does when it runs alone, on a
\* heap of its own.
\* ------------------------------------------------------------------------
Alone(xml) == parse_xaml(xml, TRUE, NoMem)

AloneShape(xml) == Shape(Alone(xml).mem, Alone(xml).written[1])

Holding(t) == callers[t].pc = "holding"

\* The allocations a call has made so far (of a tree, or of one in the
\* making).
Mine(t) == Range(callers[t].H.alog)

\* ------------------------------------------------------------------------
\* C12, as claimed: of two calls of build running at the same time on
\* inputs of their own, each returns the tree (and the status) it returns
\* when run alone, the two trees share no allocation, a release of one
\* tree leaves every allocation of the other live and unchanged, and a
\* call that returns a tree when run alone is not cut short by the other.
\* ------------------------------------------------------------------------
SameAsAlone(t) ==
    /\ callers[t].status # <<>> => callers[t].status = Alone(callers[t].xml).status
    /\ Holding(t) => Shape(mem, callers[t].handle) = AloneShape(callers[t].xml)

NothingShared ==
    (Holding(1) /\ Holding(2)) =>
        Reach(mem, callers[1].handle) \cap Reach(mem, callers[2].handle) = {}

NotCutShort(t) ==
    (crashed /\ callers[t].pc = "building" /\ ~callers[t].H.panicked) =>
        Alone(callers[t].xml).status # <<0>>

\* The tree caller t holds is whole, whatever the other caller has done
\* since (its release above all): it is made of the allocations of t's
\* call, all live, and reads as it did when the call returned.
TreeKept(t) ==
    Holding(t) =>
        /\ Reach(mem, callers[t].handle) = Mine(t)
        /\ Mine(t) \subseteq Live(mem)
        /\ callers[t].seen = <<Shape(mem, callers[t].handle)>>

C12_Original ==
    /\ \A t \in Callers : SameAsAlone(t) /\ NotCutShort(t) /\ TreeKept(t)
    /\ NothingShared

\* C12 without its last part: whatever the interleaving, a caller that
\* gets a tree gets the one its call builds alone, two trees held at the
\* same time share no allocation, and nothing the other caller does
\* touches the tree a caller holds.
Isolation ==
    /\ \A t \in Callers : SameAsAlone(t) /\ TreeKept(t)
    /\ NothingShared

\* No step of a caller changes an allocation of the tree the other holds.
OthersTreeUntouched ==
    [][\A t \in Callers :
         (Holding(t) /\ callers'[t] = callers[t]) =>
             \A a \in Mine(t) : a \in Live(mem') /\ mem'[a] = mem[a]]_vars

\* Both callers hold a tree whose allocations were made in turns.
Interleaved ==
    /\ Holding(1) /\ Holding(2)
    /\ \E a \in Mine(1), b \in Mine(2), c \in Mine(1) : a < b /\ b < c

\* ------------------------------------------------------------------------
\* C13: when a caller calls build after the other caller's call on the
\* same input has returned, its call returns the same status, and on
\* status 0 the two trees read the same: names, namespaces (null or not),
\* attribute keys, values and order, children and their order, and texts,
\* at every node; whether or not the first tree is still held.
\* ------------------------------------------------------------------------
SecondOfTwo(t) ==
    /\ callers[t].after
    /\ callers[t].xml = callers[Other(t)].xml
    /\ callers[t].status # <<>>

NonNull(q) ==
    LET IsSet(x) == x # NULL
    IN SelectSeq(q, IsSet)

RECURSIVE PairRefs(_, _)
PairRefs(pairs, j) ==
    IF j > Len(pairs) THEN <<>>
    ELSE NonNull(<<pairs[j].key, pairs[j].value>>) \o PairRefs(pairs, j + 1)

RECURSIVE Refs(_, _)
RECURSIVE ChildRefs(_, _, _)
ChildRefs(m, kids, j) ==
    IF j > Len(kids) THEN <<>> ELSE Refs(m, kids[j]) \o ChildRefs(m, kids, j + 1)

Refs(m, e) ==
    <<e>> \o NonNull(<<m[e].v.name, m[e].v.namespace, m[e].v.text_content,
                       m[e].v.attributes, m[e].v.children>>)
          \o PairRefs(Entries(m, m[e].v.attributes), 1)
          \o ChildRefs(m, Entries(m, m[e].v.children), 1)

\* A pointer field holds null or the address of a live allocation of the
\* right kind.
Holds(m, p, kind) == p = NULL \/ (p \in Live(m) /\ m[p].kind = kind)

WellTyped(m, e) ==
    /\ Holds(m, m[e].v.name, "cstring") /\ m[e].v.name # NULL
    /\ Holds(m, m[e].v.namespace, "cstring")
    /\ Holds(m, m[e].v.text_content, "cstring")
    /\ Holds(m, m[e].v.attributes, "attrs")
    /\ Holds(m, m[e].v.children, "children")
    /\ \A j \in 1..Len(Entries(m, m[e].v.attributes)) :
         /\ Holds(m, Entries(m, m[e].v.attributes)[j].key, "cstring")
         /\ Holds(m, Entries(m, m[e].v.attributes)[j].value, "cstring")
    /\ \A j \in 1..Len(Entries(m, m[e].v.children)) :
         /\ Entries(m, m[e].v.children)[j] # NULL
         /\ Holds(m, Entries(m, m[e].v.children)[j], "node")

C14_AliasFree ==
    owned # NULL =>
        /\ Holds(mem, owned, "node")
        /\ Chars(mem, mem[owned].v.name) = StrAt(markup.doc, root_element(markup.doc), "name", 0)
        /\ Cardinality(Range(Refs(mem, owned))) = Len(Refs(mem, owned))
        /\ Range(Refs(mem, owned)) \subseteq (Live(mem) \cap made)
        /\ \A e \in TreeNodes(mem, owned) : WellTyped(mem, e)

\* A tree is owned that has a namespace, a text, two attributes and a
\* child with an attribute of its own.
C14_Witness ==
    /\ owned # NULL
    /\ mem[owned].v.namespace # NULL
    /\ mem[owned].v.text_content # NULL
    /\ mem[owned].v.attributes_len = 2
    /\ \E e \in TreeNodes(mem, owned) : e # owned /\ mem[e].v.attributes # NULL

\* ------------------------------------------------------------------------
\* The free events of a release, read against the tree as it was before.
\* ------------------------------------------------------------------------
ReleaseStep == last'.op = "release" /\ last'.element # NULL /\ vars' # vars

Pos(log, a) == CHOOSE k \in 1..Len(log) : log[k] = a

\* Every address of A is freed before every address of B.
Before(log, A, B) == \A a \in A, b \in B : Pos(log, a) < Pos(log, b)

Restrict(log, A) ==
    LET InA(x) == x \in A
    IN SelectSeq(log, InA)

OwnStrings(m, e) == NonNull(<<m[e].v.name, m[e].v.namespace, m[e].v.text_content>>)

AttrStrings(m, e) == PairRefs(Entries(m, m[e].v.attributes), 1)

OwnArrays(m, e) == NonNull(<<m[e].v.attributes, m[e].v.children>>)

\* Everything the children of e own, the child nodes included.
Below(m, e) ==
    UNION { Reach(m, Entries(m, m[e].v.children)[j]) :
              j \in 1..Len(Entries(m, m[e].v.children)) }

\* ------------------------------------------------------------------------
\* C15, as claimed: in a release, for every node of the tree, the free
\* events are in the order attribute keys and values, attribute array,
\* children (recursively), child array, the node's own name, namespace and
\* text strings, the node.
\* ------------------------------------------------------------------------
C15_Original ==
    [][ReleaseStep =>
         \A e \in TreeNodes(mem, owned) :
             /\ Before(last'.res.flog, Range(AttrStrings(mem, e)),
                       {mem[e].v.attributes} \ {NULL})
             /\ Before(last'.res.flog, {mem[e].v.attributes} \ {NULL}, Below(mem, e))
             /\ Before(last'.res.flog, Below(mem, e), {mem[e].v.children} \ {NULL})
             /\ Before(last'.res.flog,
                       Range(AttrStrings(mem, e)) \cup Range(OwnArrays(mem, e))
                           \cup Below(mem, e),
                       Range(OwnStrings(mem, e)))
             /\ Before(last'.res.flog, Range(OwnStrings(mem, e)), {e})]_vars

\* C15, amended: in a release, for every node of the tree, the free
\* events are in the order name, namespace, text, then the key and the
\* value of each attribute pair in array order, the attribute array, the
\* children (recursively), the child array, and the node last.
OwnOrder(m, e) ==
    OwnStrings(m, e) \o AttrStrings(m, e) \o OwnArrays(m, e) \o <<e>>

C15_FreeOrder ==
    [][ReleaseStep =>
         \A e \in TreeNodes(mem, owned) :
             /\ Restrict(last'.res.flog, Range(OwnOrder(mem, e))) = OwnOrder(mem, e)
             /\ Before(last'.res.flog,
                       Range(OwnStrings(mem, e)) \cup Range(AttrStrings(mem, e))
                           \cup ({mem[e].v.attributes} \ {NULL}),
                       Below(mem, e))
             /\ Before(last'.res.flog, Below(mem, e), {mem[e].v.children, e} \ {NULL})]_vars

\* A tree was released whose root had a namespace, a text, attributes and
\* a child with attributes.
C15_Witness ==
    /\ last.op = "release"
    /\ last.element # NULL
    /\ markup.doc.has_ns[1]
    /\ text(markup.doc, 1) # <<>>
    /\ markup.doc.nattrs[1] >= 1
    /\ \E i \in NodesOf(markup.doc) :
         i > 1 /\ markup.doc.kind[i] = "element" /\ markup.doc.nattrs[i] >= 1
    /\ Len(last.res.flog) >= 12

\* ------------------------------------------------------------------------
\* C16: a release is depth-first and post-order: for every node of the
\* tree, everything a child owns, the child node included, is freed in one
\* unbroken run of free events, before the parent's child array and before
\* the parent node; the key and the value of every attribute pair are
\* freed before the attribute array that holds them; and the deallocator
\* touches no allocation that is already freed, an array least of all.
\* ------------------------------------------------------------------------
Positions(log, A) == {k \in 1..Len(log) : log[k] \in A}

\* The addresses of A are freed one right after the other.
Unbroken(log, A) ==
    \A j \in Positions(log, A), k \in Positions(log, A) :
        \A i \in j..k : i \in Positions(log, A)

C16_PostOrder ==
    [][ReleaseStep =>
         /\ ~last'.res.ub
         /\ \A e \in TreeNodes(mem, owned) :
              /\ Before(last'.res.flog, Below(mem, e), {mem[e].v.children, e} \ {NULL})
              /\ Before(last'.res.flog, Range(AttrStrings(mem, e)),
                        {mem[e].v.attributes} \ {NULL})
              /\ \A j \in 1..Len(Entries(mem, mem[e].v.children)) :
                   /\ Unbroken(last'.res.flog, Reach(mem, Entries(mem, mem[e].v.children)[j]))
                   /\ Reach(mem, Entries(mem, mem[e].v.children)[j])
                          \subseteq Range(last'.res.flog)]_vars

\* A tree of three levels, with attributes, was released.
C16_Witness ==
    /\ last.op = "release"
    /\ last.element # NULL
    /\ \E i \in NodesOf(markup.doc) :
         /\ markup.doc.kind[i] = "element"
         /\ markup.doc.parent[i] = 2
         /\ markup.doc.nattrs[i] >= 1
    /\ markup.doc.nattrs[2] >= 1

\* ------------------------------------------------------------------------
\* C17, as claimed: a build asks the parsed document for the attributes of
\* each element once and for its children once, the length fields being
\* the counts of the iterations that filled the arrays.
\* ------------------------------------------------------------------------
WalksOf(log, i, what) ==
    Cardinality({k \in 1..Len(log) : log[k] = [node |-> i, of |-> what]})

C17_Original ==
    (last.op = "build" /\ last.res.status = <<0>>) =>
        \A i \in NodesOf(last.xml.doc) :
            last.xml.doc.kind[i] = "element" =>
                /\ WalksOf(last.res.walks, i, "attributes") = 1
                /\ WalksOf(last.res.walks, i, "children") = 1

\* ------------------------------------------------------------------------
\* C18: in the tree the caller owns, at every node, the name is not null;
\* the namespace is null exactly when the document element has no
\* namespace, and the text is null exactly when node.text() reports none;
\* a namespace or a text that is present holds its characters in a live
\* buffer of the node's own, also when it is the empty string.
\* ------------------------------------------------------------------------
\* Field p is null when opt is None, and a live C string of the characters
\* of s when opt is Some(s).
Mirrors(m, p, opt) ==
    /\ (p = NULL) <=> (opt = <<>>)
    /\ p # NULL => p \in Live(m) /\ m[p].kind = "cstring" /\ m[p].v = Append(opt[1], NUL)

RECURSIVE OptionalsMirrorDoc(_, _, _, _)
OptionalsMirrorDoc(m, e, doc, i) ==
    /\ m[e].v.name # NULL
    /\ Mirrors(m, m[e].v.namespace,
               IF doc.has_ns[i] THEN <<StrAt(doc, i, "namespace", 0)>> ELSE <<>>)
    /\ Mirrors(m, m[e].v.text_content, text(doc, i))
    /\ \A j \in 1..Len(DocElementChildren(doc, i)) :
         OptionalsMirrorDoc(m, Entries(m, m[e].v.children)[j], doc,
                            DocElementChildren(doc, i)[j])

C18_NullMeansAbsent == owned # NULL => OptionalsMirrorDoc(mem, owned, markup.doc, 1)

\* A tree is owned with a node whose namespace or text is the empty string
\* and a node whose namespace or text is absent.
C18_Witness ==
    /\ owned # NULL
    /\ \E e \in TreeNodes(mem, owned) :
         \/ (mem[e].v.namespace # NULL /\ mem[mem[e].v.namespace].v = <<NUL>>)
         \/ (mem[e].v.text_content # NULL /\ mem[mem[e].v.text_content].v = <<NUL>>)
    /\ \E e \in TreeNodes(mem, owned) :
         mem[e].v.namespace = NULL \/ mem[e].v.text_content = NULL

\* ------------------------------------------------------------------------
\* C19, as claimed: every call of build and every release of a built tree
\* completes with a status; a build that returns a tree has converted each
\* element of the document exactly once, a release frees each allocation
\* of the tree exactly once, and the events of a call (allocations, frees,
\* iterations of the document) are bounded by the size of the input.
\* ------------------------------------------------------------------------
RECURSIVE SumAttrs(_, _)
SumAttrs(doc, i) ==
    IF i > Len(doc.kind) THEN 0
    ELSE SumAttrs(doc, i + 1) + (IF doc.kind[i] = "element" THEN doc.nattrs[i] ELSE 0)

\* Nodes and attributes of the document.
DocSize(doc) == Len(doc.kind) + SumAttrs(doc, 1)

Events(r) == Len(r.alog) + Len(r.flog) + Len(r.walks)

BoxedNodes(m, log) == {k \in 1..Len(log) : log[k] \in Live(m) /\ m[log[k]].kind = "node"}

C19_Original ==
    /\ last.op \in {"build", "release"} => (last.res.status # <<>> /\ ~crashed)
    /\ (last.op = "build" /\ last.res.status = <<0>>) =>
          /\ Cardinality(BoxedNodes(mem, last.res.alog)) = StartTags(last.xml.doc)
          /\ Events(last.res) <= 10 * DocSize(last.xml.doc)
    /\ (last.op = "build" /\ last.res.status \in {<<-1>>, <<-2>>, <<-3>>}) =>
          Events(last.res) = 0
    /\ (last.op = "release" /\ last.element # NULL) =>
          /\ \A a \in made : TimesFreed(a) = 1
          /\ Events(last.res) = Cardinality(made)

\* C19 for the calls that do complete: the same, of every call that
\* returns.
Completed ==
    /\ (last.op = "build" /\ last.res.status = <<0>>) =>
          /\ Cardinality(BoxedNodes(mem, last.res.alog)) = StartTags(last.xml.doc)
          /\ Events(last.res) <= 10 * DocSize(last.xml.doc)
    /\ (last.op = "build" /\ last.res.status \in {<<-1>>, <<-2>>, <<-3>>}) =>
          Events(last.res) = 0
    /\ (last.op = "release" /\ last.element # NULL) =>
          /\ \A a \in made : TimesFreed(a) = 1
          /\ Events(last.res) = Cardinality(made)

\* ------------------------------------------------------------------------
\* C20: a build whose output location is null returns -1 whatever the
\* input is, without decoding the input, without calling the parser,
\* without iterating, allocating or freeing, and without writing anything:
\* the heap, the caller's output location and its handle stay as they
\* were.  (So -1 is also returned for a present, well-formed input.)
\* ------------------------------------------------------------------------
C20_NullOutputLocation ==
    [][(BuildStep /\ ~last'.result) =>
         /\ last'.res.status = <<-1>>
         /\ ~last'.res.panicked
         /\ last'.res.to_str_calls = 0
         /\ last'.res.parser_calls = 0
         /\ Events(last'.res) = 0
         /\ last'.res.written = <<>>
         /\ mem' = mem /\ out' = out /\ owned' = owned]_vars

\* A null output location was passed with a well-formed input that has a
\* NUL in one of its strings, and -1 came back.
C20_Witness ==
    /\ last.op = "build"
    /\ ~last.result
    /\ last.xml.present /\ last.xml.utf8 /\ last.xml.wf
    /\ last.xml.doc.nul # <<>>
    /\ last.res.status = <<-1>>
    /\ ~crashed

====
